---- MODULE Spec2Model ----
(***************************************************************************)
(* Model of the support-agent repository: the ticket classifier chain      *)
(* (ticket_classifier.py), the knowledge base over a persisted Chroma      *)
(* store (knowledge_base.py), the response generator that composes them    *)
(* (response_generator.py) and the HTTP handler that serves it             *)
(* (server/api.py).                                                        *)
(*                                                                         *)
(* The language model, the embedding model and the vector store are        *)
(* external services.  A call to one of them is a step whose outcome is    *)
(* drawn from the outcomes such a call can have: a value, or an exception. *)
(* Confidence scores are kept as integer percentages (100 stands for 1.0). *)
(***************************************************************************)
EXTENDS Integers, Sequences, FiniteSets, TLC

\* ---------------------------------------------------------------- bounds
\* Largest number of chunks kept in the persisted collection.
MaxStored == 6
\* Largest k tried on a direct call of KnowledgeBase.search; the smallest
\* tried is -1.
MaxK == 4
\* Longest document given to the text splitter, in characters.
MaxDocLen == 5
\* Largest chunk_size given to the text splitter.
MaxChunk == 3
\* Longest ticket typed into the dashboard, in characters.
MaxTicketLen == 2
\* Largest number of tickets the dashboard processes.
MaxTickets == 3

\* ------------------------------------------------------- program constants
\* k passed by ResponseGenerator.generate_response to KnowledgeBase.search.
RetrievalK == 5
\* default k of KnowledgeBase.search, used by the __main__ block.
DefaultK == 3

\* ------------------------------------------------------------ data values
\* An optional value: <<>> for "not assigned", <<v>> for the value v.
Some(v) == <<v>>

Categories == {"billing", "technical", "general", "account"}
Priorities == {"low", "medium", "high", "urgent"}
Sentiments == {"positive", "neutral", "negative"}
\* The four fields of TicketClassification.
ClassificationFields == {"category", "priority", "sentiment", "confidence"}

\* Chunks as produced by load_documents: text plus metadata.  metadata is a
\* dict that may or may not have the key "source".
Chunk1 == [page_content |-> "c1", hasSource |-> TRUE, source |-> "faq.txt"]
Chunk2 == [page_content |-> "c2", hasSource |-> TRUE, source |-> "billing.txt"]
Chunk3 == [page_content |-> "c3", hasSource |-> FALSE, source |-> ""]

\* The chunks load_documents returns for the support_docs directory.
load_documents == <<Chunk1, Chunk2, Chunk3>>

\* Arguments tried for create_vectorstore(documents).
DocSets == {load_documents}

\* Ticket texts / queries.
Tickets == {"t1", "t2"}

\* HuggingFaceEmbeddings: a deterministic map from text to a vector, here a
\* point on a line; the distance of two texts is the distance of the points.
embeddings ==
  [x \in {"c1", "c2", "c3", "t1", "t2"} |->
     CASE x = "c1" -> 1
       [] x = "c2" -> 4
       [] x = "c3" -> 4
       [] x = "t1" -> 2
       [] x = "t2" -> 5]

Abs(n) == IF n < 0 THEN -n ELSE n
Dist(query, chunk) == Abs(embeddings[query] - embeddings[chunk.page_content])
Min(a, b) == IF a < b THEN a ELSE b

\* ------------------------------------------------------------ vector store
\* The ranking of the store, nearest first: a chunk goes before the first
\* ranked chunk that is strictly farther from the query, so equally close
\* chunks stay in insertion order.
RECURSIVE Insert(_, _, _)
Insert(chunk, ranked, query) ==
  IF ranked = <<>> THEN <<chunk>>
  ELSE IF Dist(query, chunk) < Dist(query, Head(ranked))
    THEN <<chunk>> \o ranked
    ELSE <<Head(ranked)>> \o Insert(chunk, Tail(ranked), query)

RECURSIVE Ranked(_, _)
Ranked(stored, query) ==
  IF stored = <<>> THEN <<>>
  ELSE Insert(stored[Len(stored)],
              Ranked(SubSeq(stored, 1, Len(stored) - 1), query), query)

\* Chroma.similarity_search(query, k) for k >= 1: the k nearest chunks, or
\* all of them when fewer are stored.
similarity_search(stored, query, k) ==
  SubSeq(Ranked(stored, query), 1, Min(k, Len(stored)))

\* The outcome of a call: a returned value or a raised exception.  raw is the
\* text an exception carries ("" when it carries none).
Ok(v) == [status |-> "ok", value |-> v]
Raise(kind, raw) == [status |-> "error", kind |-> kind, raw |-> raw]

\* The sequence back to front.
Reverse(seq) == [i \in 1..Len(seq) |-> seq[Len(seq) + 1 - i]]

\* search handing back the store's answer farthest first.
StoreOutcomesReversed(stored, query, k) ==
  IF k <= 0
    THEN {Raise("StoreError", ""), Ok(<<>>)}
    ELSE {Raise("StoreError", ""),
          Ok(Reverse(similarity_search(stored, query, k)))}

\* Outcomes of the call self.vectorstore.similarity_search(query, k=k).
\* KnowledgeBase.search passes k on unchecked, so for k <= 0 the outcome is
\* the store's: it rejects the call or finds nothing.  Any call may raise.
StoreOutcomes(stored, query, k) ==
  IF k <= 0
    THEN {Raise("StoreError", ""), Ok(<<>>)}
    ELSE {Raise("StoreError", ""), Ok(similarity_search(stored, query, k))}

\* --------------------------------------------------------- classifier
\* Texts the classifier's language model can answer with: a JSON object
\* (any keys, any values) or text that is not JSON.
RawValid ==
  [json |-> TRUE, text |-> "valid",
   obj |-> [category |-> "billing", priority |-> "high",
            sentiment |-> "negative", confidence |-> 90]]
RawBadCategory ==
  [json |-> TRUE, text |-> "badcategory",
   obj |-> [category |-> "shipping", priority |-> "high",
            sentiment |-> "negative", confidence |-> 90]]
RawBadConfidence ==
  [json |-> TRUE, text |-> "badconfidence",
   obj |-> [category |-> "account", priority |-> "low",
            sentiment |-> "neutral", confidence |-> 170]]
RawMissing ==
  [json |-> TRUE, text |-> "missing",
   obj |-> [category |-> "technical", priority |-> "urgent"]]
RawNotJson ==
  [json |-> FALSE, text |-> "notjson", obj |-> [none |-> TRUE]]
\* JSON that is not an object: null, parsed to None.
JsonNull == [json_null |-> TRUE]
RawNull ==
  [json |-> TRUE, text |-> "null", obj |-> JsonNull]

RawOutputs ==
  {RawValid, RawBadCategory, RawBadConfidence, RawMissing, RawNotJson, RawNull}

\* JsonOutputParser(pydantic_object=TicketClassification): the parsed JSON
\* object as a dict, or an exception carrying the text when it is not JSON.
\* The pydantic model only supplies the format instructions of the prompt.
parser(raw) ==
  IF raw.json
    THEN Ok(raw.obj)
    ELSE Raise("OutputParserException", raw.text)

\* Outcomes of one invocation of the chain prompt | llm | parser.
ClassifierOutcomes ==
  {Raise("ProviderError", "")} \cup {parser(raw) : raw \in RawOutputs}

\* ------------------------------------------------------ response chain
\* Outcomes of one invocation of response_prompt | llm | StrOutputParser().
ChainOutcomes == {Raise("ProviderError", ""), Ok("reply")}

\* "\n\n".join(texts)
RECURSIVE Join(_)
Join(texts) ==
  IF texts = <<>> THEN ""
  ELSE IF Len(texts) = 1 THEN texts[1]
  ELSE texts[1] \o "\n\n" \o Join(Tail(texts))

PageContents(docs) == [i \in 1..Len(docs) |-> docs[i].page_content]

\* doc.metadata.get("source", "unknown")
SourceOf(doc) == IF doc.hasSource THEN doc.source ELSE "unknown"

\* Sources without repeats: each source once, at its first position.
RECURSIVE SourcesDedup(_)
SourcesDedup(docs) ==
  IF docs = <<>> THEN <<>>
  ELSE LET front == SourcesDedup(SubSeq(docs, 1, Len(docs) - 1))
           last == SourceOf(docs[Len(docs)])
       IN IF \E i \in 1..Len(front) : front[i] = last
            THEN front
            ELSE Append(front, last)

\* [doc.metadata.get("source", "unknown") for doc in relevant_docs]
Sources(docs) == [i \in 1..Len(docs) |-> SourceOf(docs[i])]


\* ------------------------------------------------------- text splitter
\* load_documents splits every document with RecursiveCharacterTextSplitter(
\* chunk_size, chunk_overlap, length_function=len) and its defaults: the
\* separators below, separators kept at the start of the piece that follows
\* them, chunks stripped of surrounding whitespace.  A text is a sequence of
\* characters; a piece of it is the span <<first, last>> of its positions,
\* so that a chunk tells which characters of the document it holds.  The
\* sizes tried are small stand-ins for chunk_size=800, chunk_overlap=100.
Separators == <<<<"\n", "\n">>, <<"\n">>, <<" ">>, <<>>>>
Characters == {"a", " ", "\n"}
IsSpace(ch) == ch \in {" ", "\n"}
SpanLen(sp) == sp[2] - sp[1] + 1
NonEmpty(sp) == sp[2] >= sp[1]

\* The separator stands at position p of the text, inside the span ending
\* at last.
OccursAt(text, sep, p, last) ==
  /\ p + Len(sep) - 1 <= last
  /\ \A j \in 1..Len(sep) : text[p + j - 1] = sep[j]

\* re.search(separator, text)
Found(text, sp, sep) ==
  \E p \in sp[1]..sp[2] : OccursAt(text, sep, p, sp[2])

\* Positions where re.split finds the separator, left to right.
RECURSIVE Cuts(_, _, _, _)
Cuts(text, sep, p, last) ==
  IF p > last THEN <<>>
  ELSE IF OccursAt(text, sep, p, last)
    THEN <<p>> \o Cuts(text, sep, p + Len(sep), last)
    ELSE Cuts(text, sep, p + 1, last)

\* _split_text_with_regex with keep_separator: the characters one by one
\* for the separator "", else the pieces, each beginning with the separator
\* that precedes it; empty pieces dropped.
SplitWithSep(text, sp, sep) ==
  IF sep = <<>>
    THEN [i \in 1..SpanLen(sp) |-> <<sp[1] + i - 1, sp[1] + i - 1>>]
    ELSE LET starts == <<sp[1]>> \o Cuts(text, sep, sp[1], sp[2])
             pieces == [i \in 1..Len(starts) |->
                          <<starts[i],
                            IF i < Len(starts) THEN starts[i + 1] - 1
                                               ELSE sp[2]>>]
         IN SelectSeq(pieces, NonEmpty)

\* str.strip()
RECURSIVE LStrip(_, _)
LStrip(text, sp) ==
  IF NonEmpty(sp) /\ IsSpace(text[sp[1]])
    THEN LStrip(text, <<sp[1] + 1, sp[2]>>)
    ELSE sp
RECURSIVE RStrip(_, _)
RStrip(text, sp) ==
  IF NonEmpty(sp) /\ IsSpace(text[sp[2]])
    THEN RStrip(text, <<sp[1], sp[2] - 1>>)
    ELSE sp
Strip(text, sp) == RStrip(text, LStrip(text, sp))

\* _join_docs: the pieces joined and stripped; no chunk when nothing is left.
JoinDocs(text, cur) ==
  IF cur = <<>> THEN <<>>
  ELSE LET sp == Strip(text, <<cur[1][1], cur[Len(cur)][2]>>)
       IN IF NonEmpty(sp) THEN <<sp>> ELSE <<>>

\* The while loop of _merge_splits: pieces leave the front of the current
\* chunk until what stays is within the overlap and the next piece fits.
RECURSIVE Pop(_, _, _, _, _)
Pop(cur, total, len, chunk_size, chunk_overlap) ==
  IF total > chunk_overlap \/ (total + len > chunk_size /\ total > 0)
    THEN Pop(Tail(cur), total - SpanLen(cur[1]), len, chunk_size, chunk_overlap)
    ELSE <<cur, total>>

\* _merge_splits from piece i on, with the current chunk and its length.
RECURSIVE MergeFrom(_, _, _, _, _, _, _)
MergeFrom(text, splits, i, cur, total, chunk_size, chunk_overlap) ==
  IF i > Len(splits) THEN JoinDocs(text, cur)
  ELSE LET d == splits[i]
           len == SpanLen(d)
       IN IF total + len > chunk_size /\ cur # <<>>
            THEN LET kept == Pop(cur, total, len, chunk_size, chunk_overlap)
                 IN JoinDocs(text, cur) \o
                    MergeFrom(text, splits, i + 1, Append(kept[1], d),
                              kept[2] + len, chunk_size, chunk_overlap)
            ELSE MergeFrom(text, splits, i + 1, Append(cur, d), total + len,
                           chunk_size, chunk_overlap)

\* _merge_splits leaving out the chunk in progress when the pieces end.
RECURSIVE MergeNoFlush(_, _, _, _, _, _, _)
MergeNoFlush(text, splits, i, cur, total, chunk_size, chunk_overlap) ==
  IF i > Len(splits) THEN <<>>
  ELSE LET d == splits[i]
           len == SpanLen(d)
       IN IF total + len > chunk_size /\ cur # <<>>
            THEN LET kept == Pop(cur, total, len, chunk_size, chunk_overlap)
                 IN JoinDocs(text, cur) \o
                    MergeNoFlush(text, splits, i + 1, Append(kept[1], d),
                                 kept[2] + len, chunk_size, chunk_overlap)
            ELSE MergeNoFlush(text, splits, i + 1, Append(cur, d), total + len,
                              chunk_size, chunk_overlap)

MergeSplitsNoFlush(text, splits, chunk_size, chunk_overlap) ==
  MergeNoFlush(text, splits, 1, <<>>, 0, chunk_size, chunk_overlap)

\* _merge_splits
MergeSplits(text, splits, chunk_size, chunk_overlap) ==
  MergeFrom(text, splits, 1, <<>>, 0, chunk_size, chunk_overlap)

\* The first separator that is "" or occurs in the piece.
SepIndex(text, sp, seps) ==
  CHOOSE i \in 1..Len(seps) :
    /\ seps[i] = <<>> \/ Found(text, sp, seps[i])
    /\ \A j \in 1..(i - 1) : seps[j] # <<>> /\ ~Found(text, sp, seps[j])

\* _split_text: split on the first separator that applies; pieces shorter
\* than chunk_size are merged into chunks, the others are split again with
\* the separators that remain (or kept whole when none remains).
RECURSIVE SplitText(_, _, _, _, _)
RECURSIVE Walk(_, _, _, _, _, _, _)
Walk(text, splits, j, good, rest, chunk_size, chunk_overlap) ==
  LET merged == IF good = <<>> THEN <<>>
                ELSE MergeSplits(text, good, chunk_size, chunk_overlap)
  IN IF j > Len(splits) THEN merged
     ELSE IF SpanLen(splits[j]) < chunk_size
       THEN Walk(text, splits, j + 1, Append(good, splits[j]), rest,
                 chunk_size, chunk_overlap)
       ELSE merged \o
            (IF rest = <<>>
               THEN <<splits[j]>>
               ELSE SplitText(text, splits[j], rest, chunk_size, chunk_overlap)) \o
            Walk(text, splits, j + 1, <<>>, rest, chunk_size, chunk_overlap)

SplitText(text, sp, seps, chunk_size, chunk_overlap) ==
  LET i == SepIndex(text, sp, seps)
      rest == IF seps[i] = <<>> THEN <<>> ELSE SubSeq(seps, i + 1, Len(seps))
  IN Walk(text, SplitWithSep(text, sp, seps[i]), 1, <<>>, rest,
          chunk_size, chunk_overlap)

\* text_splitter.split_documents for one document.
split_documents(text, chunk_size, chunk_overlap) ==
  SplitText(text, <<1, Len(text)>>, Separators, chunk_size, chunk_overlap)

VARIABLES
  dirExists,      \* os.path.exists(persist_directory)
  persisted,      \* chunks of the collection on disk, in insertion order
  vectorstore,    \* generator.knowledge_base.vectorstore: "None" or "Chroma"
  kbCall,         \* last direct call of KnowledgeBase.search and its outcome
  mainRun,        \* last run of the __main__ block of knowledge_base.py
  pc,             \* position of the request being served
  ticket_text,    \* generate_response: its argument
  classification, \* generate_response: local, optional
  relevant_docs,  \* generate_response: local, optional
  context,        \* generate_response: local, optional
  error,          \* the exception that left generate_response, optional
  result,         \* the dict generate_response returned, optional
  calls,          \* external calls made for the ticket, in order
  http,           \* the last response of the server, optional
  ingest,         \* a run of the text splitter: its input and its chunks
  ticket_count,   \* dashboard: st.session_state.ticket_count
  tickets_history \* dashboard: st.session_state.tickets_history

kbVars == <<dirExists, persisted, vectorstore>>
reqVars == <<pc, ticket_text, classification, relevant_docs, context, error,
             result, calls, http>>
serverVars == <<dirExists, persisted, vectorstore, kbCall, mainRun, pc,
                ticket_text, classification, relevant_docs, context, error,
                result, calls, http>>
clientVars == <<ticket_count, tickets_history>>
vars == <<dirExists, persisted, vectorstore, kbCall, mainRun, pc, ticket_text,
          classification, relevant_docs, context, error, result, calls, http,
          ingest, ticket_count, tickets_history>>

Call(op, out) == [op |-> op, ok |-> out.status = "ok"]

\* ------------------------------------------------------- KnowledgeBase
\* Chroma.from_documents(documents, persist_directory=...): adds the
\* documents to the collection at persist_directory, creating it when absent.
from_documents(stored, documents) == stored \o documents

FromDocuments(documents) ==
  /\ Len(persisted) + Len(documents) <= MaxStored
  /\ persisted' = from_documents(persisted, documents)
  /\ dirExists' = TRUE

\* Attaching to a collection other than the one that was built: an empty one.
AttachEmpty ==
  /\ dirExists' = TRUE
  /\ persisted' = <<>>

\* Chroma(persist_directory=...): attaches to the collection at
\* persist_directory, creating an empty one when absent.
Attach ==
  /\ dirExists' = TRUE
  /\ persisted' = persisted

create_vectorstore(documents) ==
  /\ FromDocuments(documents)
  /\ vectorstore' = "Chroma"

load_vectorstore ==
  /\ Attach
  /\ vectorstore' = "Chroma"

\* search: load first when no store is attached.
LazyLoad ==
  IF vectorstore = "None"
    THEN load_vectorstore
    ELSE UNCHANGED <<dirExists, persisted, vectorstore>>

\* A direct call kb.create_vectorstore(documents).
KbCreate ==
  /\ UNCHANGED <<ingest, clientVars>>
  /\ \E documents \in DocSets : create_vectorstore(documents)
  /\ UNCHANGED <<kbCall, mainRun, reqVars>>

\* A direct call kb.load_vectorstore().
KbLoad ==
  /\ UNCHANGED <<ingest, clientVars>>
  /\ load_vectorstore
  /\ UNCHANGED <<kbCall, mainRun, reqVars>>

\* A direct call kb.search(query, k).
KbSearch ==
  /\ UNCHANGED <<ingest, clientVars>>
  /\ \E query \in Tickets, k \in (-1)..MaxK :
       /\ LazyLoad
       /\ \E out \in StoreOutcomes(persisted', query, k) :
            kbCall' = Some([query |-> query, k |-> k, attached |-> vectorstore,
                            existed |-> dirExists, out |-> out])
  /\ UNCHANGED <<mainRun, reqVars>>

\* The __main__ block without its os.path.exists test: it always creates.
MainScriptAlwaysCreate ==
  /\ UNCHANGED <<ingest, clientVars>>
  /\ FromDocuments(load_documents)
  /\ \E out \in StoreOutcomes(persisted', "t1", DefaultK) :
       mainRun' = Some([existed |-> dirExists, ok |-> out.status = "ok"])
  /\ UNCHANGED <<vectorstore, kbCall, reqVars>>

\* The __main__ block of knowledge_base.py, a process of its own with its
\* own KnowledgeBase object: create the store only when the directory does
\* not exist, else load it; then search with the default k and print what
\* was found (or end with the exception of the search).
MainScript ==
  /\ UNCHANGED <<ingest, clientVars>>
  /\ IF ~dirExists
       THEN FromDocuments(load_documents)
       ELSE Attach
  /\ \E out \in StoreOutcomes(persisted', "t1", DefaultK) :
       mainRun' = Some([existed |-> dirExists, ok |-> out.status = "ok"])
  /\ UNCHANGED <<vectorstore, kbCall, reqVars>>

\* ------------------------------------------------- POST /generate
\* The handler receives a ticket and calls generator.generate_response.
Submit ==
  /\ UNCHANGED <<ingest, clientVars>>
  /\ pc = "idle"
  /\ \E t \in Tickets : ticket_text' = t
  /\ pc' = "classify"
  /\ http' = <<>>
  /\ UNCHANGED <<classification, relevant_docs, context, error, result, calls>>
  /\ UNCHANGED <<kbVars, kbCall, mainRun>>

\* Classify with the exception caught and a default classification used.
ClassifySwallow ==
  /\ UNCHANGED <<ingest, clientVars>>
  /\ pc = "classify"
  /\ \E out \in ClassifierOutcomes :
       /\ calls' = Append(calls, Call("classify", out))
       /\ classification' =
            IF out.status = "ok"
              THEN Some(out.value)
              ELSE Some([category |-> "general", priority |-> "medium",
                         sentiment |-> "neutral", confidence |-> 0])
       /\ pc' = "search"
       /\ error' = error
  /\ UNCHANGED <<ticket_text, relevant_docs, context, result, http>>
  /\ UNCHANGED <<kbVars, kbCall, mainRun>>

\* Classify with the chain invoked a second time when the first invocation
\* raised.
ClassifyRetry ==
  /\ UNCHANGED <<ingest, clientVars>>
  /\ pc = "classify"
  /\ \E first \in ClassifierOutcomes :
       \E out \in (IF first.status = "ok" THEN {first} ELSE ClassifierOutcomes) :
         /\ calls' = IF first.status = "ok"
                       THEN Append(calls, Call("classify", first))
                       ELSE calls \o <<Call("classify", first), Call("classify", out)>>
         /\ IF out.status = "ok"
              THEN /\ classification' = Some(out.value)
                   /\ pc' = "search"
                   /\ error' = error
              ELSE /\ classification' = classification
                   /\ pc' = "failed"
                   /\ error' = Some(out)
  /\ UNCHANGED <<ticket_text, relevant_docs, context, result, http>>
  /\ UNCHANGED <<kbVars, kbCall, mainRun>>

\* classification = self.classifier.invoke({"ticket_text": ticket_text})
Classify ==
  /\ UNCHANGED <<ingest, clientVars>>
  /\ pc = "classify"
  /\ \E out \in ClassifierOutcomes :
       /\ calls' = Append(calls, Call("classify", out))
       /\ IF out.status = "ok"
            THEN /\ classification' = Some(out.value)
                 /\ pc' = "search"
                 /\ error' = error
            ELSE /\ classification' = classification
                 /\ pc' = "failed"
                 /\ error' = Some(out)
  /\ UNCHANGED <<ticket_text, relevant_docs, context, result, http>>
  /\ UNCHANGED <<kbVars, kbCall, mainRun>>

\* relevant_docs = self.knowledge_base.search(ticket_text, k=5)
\* context = "\n\n".join([doc.page_content for doc in relevant_docs])
Search ==
  /\ UNCHANGED <<ingest, clientVars>>
  /\ pc = "search"
  /\ LazyLoad
  /\ \E out \in StoreOutcomes(persisted', ticket_text, RetrievalK) :
       /\ calls' = Append(calls, Call("search", out))
       /\ IF out.status = "ok"
            THEN /\ relevant_docs' = Some(out.value)
                 /\ context' = Some(Join(PageContents(out.value)))
                 /\ pc' = "generate"
                 /\ error' = error
            ELSE /\ UNCHANGED <<relevant_docs, context>>
                 /\ pc' = "failed"
                 /\ error' = Some(out)
  /\ UNCHANGED <<ticket_text, classification, result, http>>
  /\ UNCHANGED <<kbCall, mainRun>>

\* Generate refusing to call the chain when nothing was retrieved.
GenerateNeedsContext ==
  /\ UNCHANGED <<ingest, clientVars>>
  /\ pc = "generate"
  /\ IF relevant_docs[1] = <<>>
       THEN /\ calls' = calls
            /\ result' = result
            /\ pc' = "failed"
            /\ error' = Some(Raise("ValueError", ""))
       ELSE \E out \in ChainOutcomes :
            /\ calls' = Append(calls, Call("generate", out))
            /\ IF out.status = "ok"
                 THEN /\ result' = Some([response |-> out.value,
                                         classification |-> classification[1],
                                         sources |-> Sources(relevant_docs[1])])
                      /\ pc' = "done"
                      /\ error' = error
                 ELSE /\ result' = result
                      /\ pc' = "failed"
                      /\ error' = Some(out)
  /\ UNCHANGED <<ticket_text, classification, relevant_docs, context, http>>
  /\ UNCHANGED <<kbVars, kbCall, mainRun>>

\* Generate with the chain invoked a second time when the first invocation
\* raised.
GenerateRetry ==
  /\ UNCHANGED <<ingest, clientVars>>
  /\ pc = "generate"
  /\ \E first \in ChainOutcomes :
       \E out \in (IF first.status = "ok" THEN {first} ELSE ChainOutcomes) :
         /\ calls' = IF first.status = "ok"
                       THEN Append(calls, Call("generate", first))
                       ELSE calls \o <<Call("generate", first), Call("generate", out)>>
         /\ IF out.status = "ok"
              THEN /\ result' = Some([response |-> out.value,
                                      classification |-> classification[1],
                                      sources |-> Sources(relevant_docs[1])])
                   /\ pc' = "done"
                   /\ error' = error
              ELSE /\ result' = result
                   /\ pc' = "failed"
                   /\ error' = Some(out)
  /\ UNCHANGED <<ticket_text, classification, relevant_docs, context, http>>
  /\ UNCHANGED <<kbVars, kbCall, mainRun>>

\* response = self.chain.invoke({...}); return {response, classification,
\* sources}
Generate ==
  /\ UNCHANGED <<ingest, clientVars>>
  /\ pc = "generate"
  /\ \E out \in ChainOutcomes :
       /\ calls' = Append(calls, Call("generate", out))
       /\ IF out.status = "ok"
            THEN /\ result' = Some([response |-> out.value,
                                    classification |-> classification[1],
                                    sources |-> Sources(relevant_docs[1])])
                 /\ pc' = "done"
                 /\ error' = error
            ELSE /\ result' = result
                 /\ pc' = "failed"
                 /\ error' = Some(out)
  /\ UNCHANGED <<ticket_text, classification, relevant_docs, context, http>>
  /\ UNCHANGED <<kbVars, kbCall, mainRun>>

\* str(e): the text of an exception.
Str(e) == e.kind \o ":" \o e.raw

\* Respond answering a failure with status 200 and a stock reply.
RespondFallback ==
  /\ UNCHANGED <<ingest, clientVars>>
  /\ pc \in {"done", "failed"}
  /\ http' = IF pc = "done"
               THEN Some([status |-> 200, body |-> result[1]])
               ELSE Some([status |-> 200,
                          body |-> [response |-> "sorry", sources |-> <<>>]])
  /\ pc' = "idle"
  /\ classification' = <<>>
  /\ relevant_docs' = <<>>
  /\ context' = <<>>
  /\ error' = <<>>
  /\ result' = <<>>
  /\ calls' = <<>>
  /\ UNCHANGED ticket_text
  /\ UNCHANGED <<kbVars, kbCall, mainRun>>

\* The handler returns the result, or turns the exception into status 500;
\* the locals of the call are gone.
Respond ==
  /\ UNCHANGED <<ingest, clientVars>>
  /\ pc \in {"done", "failed"}
  /\ http' = IF pc = "done"
               THEN Some([status |-> 200, body |-> result[1]])
               ELSE Some([status |-> 500, detail |-> Str(error[1])])
  /\ pc' = "idle"
  /\ classification' = <<>>
  /\ relevant_docs' = <<>>
  /\ context' = <<>>
  /\ error' = <<>>
  /\ result' = <<>>
  /\ calls' = <<>>
  /\ UNCHANGED ticket_text
  /\ UNCHANGED <<kbVars, kbCall, mainRun>>

\* What GET /health answers.
Healthy ==
  [status |-> 200,
   body |-> [status |-> "healthy", message |-> "Support agent API is running"]]

\* GET /health.  The handlers are coroutines that never await, so the
\* server answers it between two requests, not during one.
HealthCheck ==
  /\ UNCHANGED <<ingest, clientVars>>
  /\ pc = "idle"
  /\ http' = Some(Healthy)
  /\ UNCHANGED <<pc, ticket_text, classification, relevant_docs, context,
                 error, result, calls>>
  /\ UNCHANGED <<kbVars, kbCall, mainRun>>

\* The state after the server has constructed its ResponseGenerator: the
\* persist directory holds the corpus or does not exist, no store attached.
Init ==
  /\ dirExists \in BOOLEAN
  /\ persisted = IF dirExists THEN load_documents ELSE <<>>
  /\ vectorstore = "None"
  /\ kbCall = <<>>
  /\ mainRun = <<>>
  /\ pc = "idle"
  /\ ticket_text = "t1"
  /\ classification = <<>>
  /\ relevant_docs = <<>>
  /\ context = <<>>
  /\ error = <<>>
  /\ result = <<>>
  /\ calls = <<>>
  /\ http = <<>>
  /\ ingest = <<>>
  /\ ticket_count = 0
  /\ tickets_history = <<>>

Next ==
  \/ KbCreate
  \/ KbLoad
  \/ KbSearch
  \/ MainScript
  \/ Submit
  \/ Classify
  \/ Search
  \/ Generate
  \/ Respond
  \/ HealthCheck

Spec == Init /\ [][Next]_vars

\* ------------------------------------------------------------ properties
\* A dict is a Classification: the four fields, each in its domain.
InDomain(c) ==
  /\ DOMAIN c = ClassificationFields
  /\ c.category \in Categories
  /\ c.priority \in Priorities
  /\ c.sentiment \in Sentiments
  /\ c.confidence \in 0..100

\* Number of calls of an external service made for the ticket.
CountCalls(op) == Cardinality({i \in 1..Len(calls) : calls[i].op = op})

LastCall == calls[Len(calls)]

\* C1: whatever the classifier returns to generate_response has the four
\* fields of a Classification, each in its domain; anything else is a
\* failure of classify.
C1_DomainClosure ==
  classification # <<>> => InDomain(classification[1])

\* C2: the generation call is made only after a successful classification
\* and a successful retrieval; once the classification has failed, no
\* generation call is made for the ticket and generate_response ends with
\* that failure.
C2_GenerationAfterBoth ==
  /\ \A i \in 1..Len(calls) :
       calls[i].op = "generate" =>
         /\ \E j \in 1..(i - 1) : calls[j] = [op |-> "classify", ok |-> TRUE]
         /\ \E j \in 1..(i - 1) : calls[j] = [op |-> "search", ok |-> TRUE]
  /\ (\E j \in 1..Len(calls) : calls[j] = [op |-> "classify", ok |-> FALSE]) =>
       /\ CountCalls("generate") = 0
       /\ CountCalls("search") = 0
       /\ pc = "failed"
       /\ error # <<>>
       /\ result = <<>>

C2_Witness ==
  /\ pc = "failed"
  /\ calls = <<[op |-> "classify", ok |-> FALSE]>>
  /\ error # <<>>

\* C3: when the search returned no chunk, the context is the empty string,
\* generate_response ends only through the generation call, and when that
\* call succeeds the result is returned with an empty sources list.
C3_EmptyContext ==
  relevant_docs = Some(<<>>) =>
    /\ context = Some("")
    /\ pc \in {"generate", "done", "failed"}
    /\ pc \in {"done", "failed"} => LastCall.op = "generate"
    /\ pc = "done" =>
         /\ LastCall.ok
         /\ result # <<>>
         /\ result[1].sources = <<>>
    /\ pc = "failed" => ~LastCall.ok

C3_Witness ==
  /\ pc = "done"
  /\ relevant_docs = Some(<<>>)
  /\ result # <<>>
  /\ result[1].sources = <<>>
  /\ result[1].response = "reply"

\* C4: the sources of a returned result have one entry per retrieved chunk,
\* in the order of the retrieved chunks, repeats kept: entry i is the source
\* of chunk i, or "unknown" when its metadata has none.
C4_SourcesPerChunk ==
  pc = "done" =>
    LET docs == relevant_docs[1]
        sources == result[1].sources
    IN /\ Len(sources) = Len(docs)
       /\ \A i \in 1..Len(docs) :
            sources[i] = IF docs[i].hasSource THEN docs[i].source ELSE "unknown"

C4_Witness ==
  /\ pc = "done"
  /\ Len(result[1].sources) = RetrievalK
  /\ \E i, j \in 1..Len(result[1].sources) :
       i < j /\ result[1].sources[i] = result[1].sources[j]
  /\ \E i \in 1..Len(result[1].sources) : result[1].sources[i] = "unknown"

C6_MissingIndexFails ==
  (kbCall # <<>> /\ kbCall[1].k >= 1
     /\ kbCall[1].attached = "None" /\ ~kbCall[1].existed) =>
    kbCall[1].out.status = "error"

\* C7 (as claimed): no operation changes the chunks of an index that is
\* already persisted.
C7_PersistedNeverChanges ==
  [][dirExists => persisted' = persisted]_vars

\* C7 (amended): the build path of the __main__ block leaves the chunks of
\* an already persisted index as they are, and builds the corpus when no
\* index is persisted.
C7_MainPathReuses ==
  [][MainScript =>
       /\ dirExists => persisted' = persisted
       /\ ~dirExists => persisted' = load_documents]_vars

C7_Witness ==
  /\ mainRun # <<>>
  /\ mainRun[1].existed
  /\ persisted = load_documents

\* C8 (as claimed): when the classifier's output is rejected, the model has
\* been called a second time before classify fails.
C8_RetriesOnce ==
  (pc = "failed" /\ error[1].kind = "OutputParserException") =>
    CountCalls("classify") = 2

\* C8 (amended): the classifier is called at most once per ticket; when its
\* output cannot be parsed, classify fails after that one call, with the
\* parser's exception carrying the raw output.
C8_NoRetry ==
  /\ CountCalls("classify") <= 1
  /\ (pc = "failed" /\ error[1].kind = "OutputParserException") =>
       /\ calls = <<[op |-> "classify", ok |-> FALSE]>>
       /\ error[1].raw = RawNotJson.text

C8_Witness ==
  /\ pc = "failed"
  /\ error = Some(Raise("OutputParserException", RawNotJson.text))
  /\ CountCalls("classify") = 1

\* C9: at most one generation call is made per ticket; when it fails,
\* generate_response ends with that failure and no result.
C9_OneGenerationCall ==
  /\ CountCalls("generate") <= 1
  /\ (calls # <<>> /\ LastCall = [op |-> "generate", ok |-> FALSE]) =>
       /\ pc = "failed"
       /\ error = Some(Raise("ProviderError", ""))
       /\ result = <<>>

C9_Witness ==
  /\ pc = "failed"
  /\ calls # <<>>
  /\ LastCall = [op |-> "generate", ok |-> FALSE]
  /\ CountCalls("generate") = 1

\* C10: no step of serving a ticket writes the state shared between
\* requests: the attached store of the knowledge base and the persisted
\* index.
C10_NoSharedWrites ==
  [][(Submit \/ Classify \/ Search \/ Generate \/ Respond) =>
       UNCHANGED <<vectorstore, dirExists, persisted>>]_vars

\* A sequence is the beginning of another.
IsPrefix(a, b) == Len(a) <= Len(b) /\ a = SubSeq(b, 1, Len(a))

\* The values a call can return, out of its outcomes.
OkValues(outcomes) == {o.value : o \in {x \in outcomes : x.status = "ok"}}

\* Number of times a chunk occurs in a sequence.
Occurrences(seq, c) == Cardinality({i \in 1..Len(seq) : seq[i] = c})

C14_FailuresAre500 ==
  [][/\ Respond =>
          /\ pc = "failed" =>
               http' = Some([status |-> 500, detail |-> Str(error[1])])
          /\ http'[1].status = 200 =>
               /\ pc = "done"
               /\ LastCall = [op |-> "generate", ok |-> TRUE]
               /\ http'[1].body = result[1]
     /\ HealthCheck =>
          /\ http' = Some(Healthy)
          /\ UNCHANGED <<dirExists, persisted, vectorstore, kbCall, mainRun,
                         pc, ticket_text, classification, relevant_docs,
                         context, error, result, calls>>]_vars

C14_Witness ==
  /\ http = Some([status |-> 500, detail |-> "OutputParserException:notjson"])
  /\ pc = "idle"

\* ------------------------------------------ specification of the splitter
\* All texts of at most n characters.
RECURSIVE TextsUpTo(_)
TextsUpTo(n) ==
  IF n = 0 THEN {<<>>}
  ELSE LET shorter == TextsUpTo(n - 1)
       IN shorter \cup {Append(t, ch) : t \in shorter, ch \in Characters}

\* A document and the sizes of the splitter, chunk_overlap < chunk_size.
SplitInit ==
  /\ Init!1 /\ Init!2 /\ Init!3 /\ Init!4 /\ Init!5 /\ Init!6 /\ Init!7
  /\ Init!8 /\ Init!9 /\ Init!10 /\ Init!11 /\ Init!12 /\ Init!13 /\ Init!14
  /\ ticket_count = 0
  /\ tickets_history = <<>>
  /\ \E text \in TextsUpTo(MaxDocLen), chunk_size \in 1..MaxChunk :
       \E chunk_overlap \in 0..(chunk_size - 1) :
         ingest = [text |-> text, chunk_size |-> chunk_size,
                   chunk_overlap |-> chunk_overlap, split |-> FALSE,
                   chunks |-> <<>>]

\* splits = text_splitter.split_documents(documents)
SplitDocuments ==
  /\ ~ingest.split
  /\ ingest' = [ingest EXCEPT
                  !.split = TRUE,
                  !.chunks = split_documents(ingest.text, ingest.chunk_size,
                                             ingest.chunk_overlap)]
  /\ UNCHANGED <<serverVars, clientVars>>

SplitNext == SplitDocuments

SplitSpec == SplitInit /\ [][SplitNext]_vars

\* Position p of the document is inside a chunk.
Covered(chunks, p) ==
  \E i \in 1..Len(chunks) : chunks[i][1] <= p /\ p <= chunks[i][2]

ChunksBounded ==
  \A i \in 1..Len(ingest.chunks) : SpanLen(ingest.chunks[i]) <= ingest.chunk_size

ChunksInOrder ==
  \A i, j \in 1..Len(ingest.chunks) :
    i < j => ingest.chunks[i][1] <= ingest.chunks[j][1]

StripText(text) ==
  LET sp == Strip(text, <<1, Len(text)>>)
  IN SubSeq(text, sp[1], sp[2])

\* What POST /generate answers with status 200: the dict generate_response
\* returns, with whatever the classifier chain returned.
ApiBodies ==
  {[response |-> r, classification |-> c, sources |-> Sources(docs)] :
     r \in {o.value : o \in {x \in ChainOutcomes : x.status = "ok"}},
     c \in {o.value : o \in {x \in ClassifierOutcomes : x.status = "ok"}},
     docs \in {<<>>, load_documents}}

\* call_generate_api: (True, body) for status 200, (False, message) for any
\* other status, a timeout, a lost connection or another exception.
ApiOutcomes ==
  {[success |-> TRUE, body |-> b] : b \in ApiBodies} \cup
  {[success |-> FALSE, message |-> m] :
     m \in {"API Error", "Request timeout", "Lost connection",
            "Unexpected error"}}

\* d.get(key, default) on a dict.
Get(d, key, default) == IF key \in DOMAIN d THEN d[key] ELSE default

\* The history entry of a processed ticket (its timestamp left out).
HistoryEntry(ticket, body) ==
  [ticket |-> ticket,
   category |-> Get(body.classification, "category", "unknown"),
   priority |-> Get(body.classification, "priority", "medium"),
   confidence |-> Get(body.classification, "confidence", 0),
   response_length |-> Len(body.response)]

\* The Process Ticket button with the text of the text area.  The API is
\* called for a text that is not blank.  On success the counter is raised,
\* then the history entry is built and appended; building it calls .get on
\* the classification and ends the run there when that is not a dict.
ProcessTicket ==
  /\ ticket_count < MaxTickets
  /\ \E text \in TextsUpTo(MaxTicketLen) :
       IF StripText(text) = <<>>
         THEN UNCHANGED clientVars
         ELSE \E out \in ApiOutcomes :
                IF out.success
                  THEN /\ ticket_count' = ticket_count + 1
                       /\ tickets_history' =
                            IF out.body.classification # JsonNull
                              THEN Append(tickets_history,
                                          HistoryEntry(StripText(text), out.body))
                              ELSE tickets_history
                  ELSE UNCHANGED clientVars
  /\ UNCHANGED <<serverVars, ingest>>

\* The Clear History button.
ClearHistory ==
  /\ tickets_history' = <<>>
  /\ ticket_count' = 0
  /\ UNCHANGED <<serverVars, ingest>>

ClientInit ==
  /\ Init!1 /\ Init!2 /\ Init!3 /\ Init!4 /\ Init!5 /\ Init!6 /\ Init!7
  /\ Init!8 /\ Init!9 /\ Init!10 /\ Init!11 /\ Init!12 /\ Init!13 /\ Init!14
  /\ ingest = <<>>
  /\ ticket_count = 0
  /\ tickets_history = <<>>

ClientNext == ProcessTicket \/ ClearHistory

ClientSpec == ClientInit /\ [][ClientNext]_vars

\* C15: the counter of processed tickets equals the length of the history.
C15_CountMatchesHistory ==
  ticket_count = Len(tickets_history)
====
